---- MODULE Spec2Model ----
(***************************************************************************)
(* A model of ldap3.abstract.objectDef.ObjectDef: the constructor with its *)
(* recursive schema resolution (_populate_attr_defs), and the attribute    *)
(* container (add, remove, clear, lookup, the read-only guard).           *)
(*                                                                         *)
(* A Python str is a sequence of one-character strings, so that lower()    *)
(* and ''.join(x.split()) are computed and not assumed.  The attribute     *)
(* dict is a sequence of records in insertion order with pairwise          *)
(* different (exact) keys.                                                 *)
(***************************************************************************)
EXTENDS Integers, Sequences, FiniteSets, TLC

VARIABLES
    pc,                 \* "new" | "populate" | "ready" | "failed"
    args,               \* the arguments __init__ was called with
    object_class,       \* self._object_class
    attributes,         \* self._attributes, in insertion order
    custom_validator,   \* self._custom_validator
    schema,             \* self._schema
    stray_object_class, \* self.__dict__['object_class'] (no underscore)
    pending,            \* elements of the loop of __init__ still to visit
    stack,              \* the frames of _populate_attr_defs, innermost last
    err,                \* the exception the last call raised, or "none"
    last                \* the last call made on the object and its argument

vars == <<pc, args, object_class, attributes, custom_validator, schema,
          stray_object_class, pending, stack, err, last>>

fields == <<object_class, attributes, custom_validator, schema,
            stray_object_class>>

----------------------------------------------------------------------------
(* Bounds *)

\* add() of a new key is not taken once the dict holds this many records
MaxAttrs == 2

\* the longest sequence add() is called with
MaxSeqLen == 3

\* the interpreter's recursion limit, counted in calls of _populate_attr_defs;
\* deeper than any acyclic chain of superiors of the schemas below
MaxDepth == 4

----------------------------------------------------------------------------
(* Python strings *)

cn      == <<"c", "n">>
CN      == <<"C", "N">>
c_n     == <<" ", "c", " ", "n", " ">>
sn      == <<"s", "n">>
empty   == <<>>
blank   == <<" ">>
mail    == <<"m", "a", "i", "l">>
telephoneNumber ==
    <<"t", "e", "l", "e", "p", "h", "o", "n", "e", "N", "u", "m", "b", "e", "r">>

\* the strings the calls are made with
Names == {cn, CN, c_n, sn, empty, blank}

\* str.lower() on one character
LowerChar(ch) ==
    CASE ch = "C" -> "c"
      [] ch = "N" -> "n"
      [] ch = "S" -> "s"
      [] OTHER    -> ch

\* str.lower()
lower(s) == [i \in 1..Len(s) |-> LowerChar(s[i])]

IsSpace(ch) == ch = " "

\* ''.join(s.split()): s without its whitespace
RECURSIVE join_split(_)
join_split(s) ==
    IF s = <<>> THEN <<>>
    ELSE IF IsSpace(Head(s)) THEN join_split(Tail(s))
    ELSE <<Head(s)>> \o join_split(Tail(s))

\* ''.join(item.split()).lower()
normalize(s) == lower(join_split(s))

----------------------------------------------------------------------------
(* Attribute records and the validator lookup *)

NoValidator == "None"

\* AttrDef(name): key = name, no validator, not mandatory
AttrDef(name) == [key |-> name, validate |-> NoValidator, mandatory |-> FALSE]

\* find_attribute_validator(schema, name, custom_validator)
find_attribute_validator(sch, name, custom) ==
    IF custom # "None" THEN "custom"
    ELSE IF sch.kind = "SchemaInfo" THEN "schema"
    ELSE NoValidator

----------------------------------------------------------------------------
(* The dict self._attributes *)

Keys(attrs) == {attrs[i].key : i \in 1..Len(attrs)}

\* key in self._attributes (dict membership: exact comparison)
InDict(attrs, key) == \E i \in 1..Len(attrs) : attrs[i].key = key

IndexOf(attrs, key) == CHOOSE i \in 1..Len(attrs) : attrs[i].key = key

\* self._attributes[key] (key present)
DictGet(attrs, key) == attrs[IndexOf(attrs, key)]

\* self._attributes[key] = rec: an existing key keeps its place
DictSet(attrs, key, rec) ==
    IF InDict(attrs, key)
    THEN [attrs EXCEPT ![IndexOf(attrs, key)] = rec]
    ELSE Append(attrs, rec)

\* del self._attributes[key]
DictDel(attrs, key) ==
    LET i == IndexOf(attrs, key)
    IN  SubSeq(attrs, 1, i - 1) \o SubSeq(attrs, i + 1, Len(attrs))

----------------------------------------------------------------------------
(* The arguments of add and remove, tagged by their Python type *)

Str(s)      == [kind |-> "str", s |-> s]
Rec(r)      == [kind |-> "AttrDef", rec |-> r]
SeqOf(es)   == [kind |-> "seq", elems |-> es]
Other       == [kind |-> "other"]

----------------------------------------------------------------------------
(* ObjectDef.add *)

\* the AttrDef branch: store under definition.key, attach a validator if
\* the definition has none
add_attr_def(attrs, sch, custom, definition) ==
    LET stored == DictSet(attrs, definition.key, definition)
    IN  IF definition.validate = NoValidator
        THEN DictSet(stored, definition.key,
                     [definition EXCEPT !.validate =
                         find_attribute_validator(sch, definition.key, custom)])
        ELSE stored

\* add(definition): the dict afterwards and the exception raised, if any.
\* A sequence is added element by element and stops at the first exception.
RECURSIVE add(_, _, _, _)
add(attrs, sch, custom, definition) ==
    CASE definition.kind = "str" ->
            add(attrs, sch, custom, Rec(AttrDef(definition.s)))
      [] definition.kind = "AttrDef" ->
            [attrs |-> add_attr_def(attrs, sch, custom, definition.rec),
             err |-> "none"]
      [] definition.kind = "seq" ->
            IF definition.elems = <<>>
            THEN [attrs |-> attrs, err |-> "none"]
            ELSE LET first == add(attrs, sch, custom, Head(definition.elems))
                 IN  IF first.err # "none" THEN first
                     ELSE add(first.attrs, sch, custom,
                              SeqOf(Tail(definition.elems)))
      [] OTHER ->
            [attrs |-> attrs, err |-> "ObjectError"]

----------------------------------------------------------------------------
(* ObjectDef.__getattr__, __getitem__, __contains__, __len__ *)

\* the positions whose key, lower-cased, equals the normalized item
Matches(attrs, item) ==
    {i \in 1..Len(attrs) : normalize(item) = lower(attrs[i].key)}

First(S) == CHOOSE i \in S : \A j \in S : i <= j

\* __getattr__(item): the first match in the dict's order, or KeyError
getattr(attrs, item) ==
    IF Matches(attrs, item) = {}
    THEN [err |-> "KeyError", rec |-> AttrDef(<<>>)]
    ELSE [err |-> "none", rec |-> attrs[First(Matches(attrs, item))]]

getitem(attrs, item) == getattr(attrs, item)

contains(attrs, item) == getitem(attrs, item).err # "KeyError"

len(attrs) == Len(attrs)

\* __iter__ with the records in reverse
iter_reversed(attrs) ==
    [i \in 1..Len(attrs) |-> DictGet(attrs, attrs[Len(attrs) + 1 - i].key)]

\* __iter__: for each key of the dict, in the dict's order, the record
\* stored under it
iter(attrs) == [i \in 1..Len(attrs) |-> DictGet(attrs, attrs[i].key)]

----------------------------------------------------------------------------
(* ObjectDef.remove *)

\* key = None; str: the normalized item; AttrDef: item.key.  "if key:" is
\* false for None and for the empty string.
remove_key(item) ==
    CASE item.kind = "str"     -> [truthy |-> normalize(item.s) # <<>>,
                                   key |-> normalize(item.s)]
      [] item.kind = "AttrDef" -> [truthy |-> item.rec.key # <<>>,
                                   key |-> item.rec.key]
      [] OTHER                 -> [truthy |-> FALSE, key |-> <<>>]

\* item == attr.lower(): the item itself, not the key, is compared; an
\* AttrDef never equals a str
item_equals(item, attr) ==
    item.kind = "str" /\ item.s = lower(attr)

remove_matches(attrs, item) ==
    {i \in 1..Len(attrs) : item_equals(item, attrs[i].key)}

remove(attrs, item) ==
    IF remove_key(item).truthy
    THEN IF remove_matches(attrs, item) # {}
         THEN [attrs |-> DictDel(attrs, attrs[First(remove_matches(attrs, item))].key),
               err |-> "none"]
         ELSE [attrs |-> attrs, err |-> "KeyError"]
    ELSE [attrs |-> attrs, err |-> "TypeError"]

\* __isub__(other): remove(other.key) for an AttrDef, remove(other) for a str,
\* nothing for anything else
isub(attrs, other) ==
    CASE other.kind = "AttrDef" -> remove(attrs, Str(other.rec.key))
      [] other.kind = "str"     -> remove(attrs, other)
      [] OTHER                  -> [attrs |-> attrs, err |-> "none"]

----------------------------------------------------------------------------
(* ObjectDef.clear, __setattr__, __repr__ *)

\* clear() with both writes going to names without the underscore
clear_no_underscore(oc, stray, attrs) ==
    [object_class |-> oc, stray_object_class |-> "None", attributes |-> attrs]

\* clear(): the fields afterwards.  The class name is written to
\* __dict__['object_class'], the attributes to __dict__['_attributes'].
clear(oc, stray, attrs) ==
    [object_class |-> oc, stray_object_class |-> "None", attributes |-> <<>>]

\* __setattr__ as object.__setattr__: the field is written
setattr_writes(flds, key, value) ==
    [fields |-> [flds EXCEPT ![key] = value], err |-> "none"]

\* __setattr__(key, value): always raises, nothing is written
setattr(flds, key, value) == [fields |-> flds, err |-> "ObjectError"]

\* the header of __repr__: the class names when _object_class is truthy
repr_header(oc) ==
    IF oc.names = <<>> \/ oc = [is_seq |-> FALSE, names |-> <<"None">>]
    THEN "OBJ: <none>"
    ELSE "OBJ: str(_object_class)"

----------------------------------------------------------------------------
(* The schema: per known class name its superiors, must_contain and
   may_contain *)

NoSchema == [kind |-> "None", object_classes |-> [c \in {} |-> <<>>]]

SchemaInfo(classes) == [kind |-> "SchemaInfo", object_classes |-> classes]

ObjectClassInfo(sup, must, may) ==
    [superior |-> sup, must_contain |-> must, may_contain |-> may]

\* the object_class argument: one name, or a sequence of names
Plain(name) == [is_seq |-> FALSE, names |-> <<name>>]
List(names) == [is_seq |-> TRUE, names |-> names]

\* a Server or a Connection, whose schema is a SchemaInfo or None
Server(sch) == [kind |-> "Server", schema |-> sch]
Connection(sch) == [kind |-> "Connection", schema |-> sch]

\* an object of another type, true or false under "if schema:"
Unrecognized(truth) ==
    [kind |-> IF truth THEN "truthy" ELSE "falsy",
     object_classes |-> [c \in {} |-> <<>>]]

\* "if schema:"
Truthy(sch) == sch.kind \in {"SchemaInfo", "truthy"}

\* lines 47-57: the schema argument is turned into the schema that is
\* stored, or SchemaError is raised
read_schema(sch) ==
    LET read == CASE sch.kind = "Server"     -> [err |-> "none", schema |-> sch.schema]
                  [] sch.kind = "Connection" -> [err |-> "none", schema |-> sch.schema]
                  [] sch.kind = "SchemaInfo" -> [err |-> "none", schema |-> sch]
                  [] sch.kind = "truthy"     -> [err |-> "SchemaError", schema |-> sch]
                  [] OTHER                   -> [err |-> "none", schema |-> sch]
    IN  IF sch.kind = "None" THEN [err |-> "none", schema |-> sch]
        ELSE IF read.err = "none" /\ read.schema.kind = "None"
        THEN [err |-> "SchemaError", schema |-> read.schema]
        ELSE read

Known(sch) == DOMAIN sch.object_classes

\* the attribute lists the schemas are built from
AttrLists == {<<>>, <<cn>>, <<CN, sn>>}

\* schemas over top, person and user with acyclic superiors; "ghost" is a
\* name the schema does not know
ResolveSchemas ==
    {SchemaInfo([c \in {"top", "person", "user"} |->
        CASE c = "top"    -> ObjectClassInfo(<<>>, m[1], m[2])
          [] c = "person" -> ObjectClassInfo(sp, m[3], m[4])
          [] OTHER        -> ObjectClassInfo(su, m[5], m[6])]) :
        m \in [1..6 -> AttrLists],
        sp \in {<<>>, <<"top">>, <<"ghost">>},
        su \in {<<"person">>, <<"top", "person">>, <<"person", "top">>,
                <<"person", "ghost">>}}

ResolveArgs ==
    [object_class : {Plain("user"), List(<<"ghost", "person">>),
                     List(<<"top", "user">>)},
     schema : ResolveSchemas,
     custom_validator : {"None", "custom"}]

\* the schema of the container specification: person below top
PersonSchema ==
    SchemaInfo([c \in {"top", "person"} |->
        IF c = "top" THEN ObjectClassInfo(<<>>, <<>>, <<>>)
        ELSE ObjectClassInfo(<<"top">>, <<cn>>, <<sn>>)])

ContainerArgs ==
    {[object_class |-> Plain("None"), schema |-> NoSchema,
      custom_validator |-> "None"],
     [object_class |-> Plain("person"), schema |-> Server(PersonSchema),
      custom_validator |-> "None"],
     [object_class |-> Plain("person"), schema |-> Server(NoSchema),
      custom_validator |-> "None"],
     [object_class |-> Plain("person"), schema |-> Unrecognized(TRUE),
      custom_validator |-> "None"]}

\* a schema with user below person below top
UserSchema ==
    SchemaInfo([c \in {"top", "person", "user"} |->
        CASE c = "top"    -> ObjectClassInfo(<<>>, <<>>, <<cn>>)
          [] c = "person" -> ObjectClassInfo(<<"top">>, <<cn>>, <<sn>>)
          [] OTHER        -> ObjectClassInfo(<<"person">>, <<sn>>, <<cn>>)])

\* the schema arguments of every kind __init__ tells apart
ConstructArgs ==
    [object_class : {Plain("None"), Plain("person"), Plain("user"),
                     List(<<"ghost", "person">>), List(<<"top", "person">>)},
     schema : {NoSchema, Unrecognized(TRUE), Unrecognized(FALSE)}
                \cup {k : k \in {PersonSchema, UserSchema}}
                \cup {Server(k) : k \in {NoSchema, PersonSchema, UserSchema}}
                \cup {Connection(k) : k \in {NoSchema, PersonSchema, UserSchema}},
     custom_validator : {"None", "custom"}]

\* schemas over top, person and user whose superiors may form a cycle:
\* person above itself, or top below user
CycleSchemas ==
    {SchemaInfo([c \in {"top", "person", "user"} |->
        CASE c = "top"    -> ObjectClassInfo(st, <<>>, <<cn>>)
          [] c = "person" -> ObjectClassInfo(sp, <<cn>>, <<sn>>)
          [] OTHER        -> ObjectClassInfo(su, <<sn>>, <<CN>>)]) :
        st \in {<<>>, <<"user">>},
        sp \in {<<"top">>, <<"person">>, <<"top", "person">>},
        su \in {<<"person">>, <<"top", "person">>}}

CycleArgs ==
    [object_class : {Plain("top"), Plain("user"), List(<<"top", "person">>)},
     schema : CycleSchemas,
     custom_validator : {"None"}]

----------------------------------------------------------------------------
(* The state before __init__ runs *)

NoCall == [op |-> "none", arg |-> [kind |-> "none"]]

InitWith(a) ==
    /\ pc = "new"
    /\ args = a
    /\ object_class = Plain("None")
    /\ attributes = <<>>
    /\ custom_validator = "None"
    /\ schema = NoSchema
    /\ stray_object_class = "absent"
    /\ pending = <<>>
    /\ stack = <<>>
    /\ err = "none"
    /\ last = NoCall

Init == \E a \in ContainerArgs : InitWith(a)

InitResolve == \E a \in ResolveArgs : InitWith(a)

InitConstruct == \E a \in ConstructArgs : InitWith(a)

InitCycle == \E a \in CycleArgs : InitWith(a)

----------------------------------------------------------------------------
(* __init__ and _populate_attr_defs *)

\* a call that starts at line 72, past the superiors
Frame_own_first(cls) == [cls |-> cls, phase |-> "must", idx |-> 1]

\* a call of _populate_attr_defs(cls, schema), at its line 69
Frame(cls) == [cls |-> cls, phase |-> "superior", idx |-> 1]

Top == stack[Len(stack)]

ReplaceTop(f) == [stack EXCEPT ![Len(stack)] = f]

Pop == SubSeq(stack, 1, Len(stack) - 1)

TopInfo == schema.object_classes[Top.cls]

\* lines 44-62: the fields are set and the schema argument is read; with a
\* schema the loop over the requested names starts
Construct ==
    /\ pc = "new"
    /\ object_class' = args.object_class
    /\ attributes' = <<>>
    /\ custom_validator' = args.custom_validator
    /\ LET read == read_schema(args.schema)
       IN  IF read.err # "none"
           THEN /\ pc' = "failed"
                /\ err' = read.err
                /\ UNCHANGED <<schema, pending>>
           ELSE /\ schema' = read.schema
                /\ err' = "none"
                /\ IF Truthy(read.schema)
                   THEN /\ pending' = args.object_class.names
                        /\ pc' = "populate"
                   ELSE /\ pending' = <<>>
                        /\ pc' = "ready"
    /\ last' = [op |-> "__init__", arg |-> [kind |-> "none"]]
    /\ UNCHANGED <<args, stray_object_class, stack>>

\* lines 64-66: a requested name the schema knows is populated, any other
\* is passed over
ForElement ==
    /\ pc = "populate" /\ stack = <<>> /\ pending # <<>>
    /\ pending' = Tail(pending)
    /\ stack' = IF Head(pending) \in Known(schema)
                THEN <<Frame(Head(pending))>>
                ELSE stack
    /\ UNCHANGED <<pc, args, fields, err, last>>

\* the loop of line 64 is over: __init__ returns
Constructed ==
    /\ pc = "populate" /\ stack = <<>> /\ pending = <<>>
    /\ pc' = "ready"
    /\ UNCHANGED <<args, fields, pending, stack, err, last>>

\* lines 69-71 with a guard: a superior whose call is in progress is passed
\* over
PopulateSuperior_visited ==
    /\ pc = "populate" /\ stack # <<>> /\ Top.phase = "superior"
    /\ Top.idx <= Len(TopInfo.superior)
    /\ LET sup == TopInfo.superior[Top.idx]
       IN  IF \E p \in 1..Len(stack) : stack[p].cls = sup
           THEN /\ stack' = ReplaceTop([Top EXCEPT !.idx = @ + 1])
                /\ UNCHANGED <<pc, err>>
           ELSE IF Len(stack) >= MaxDepth
           THEN /\ pc' = "failed"
                /\ err' = "RecursionError"
                /\ UNCHANGED stack
           ELSE IF sup \in Known(schema)
           THEN /\ stack' = Append(ReplaceTop([Top EXCEPT !.idx = @ + 1]),
                                   Frame(sup))
                /\ UNCHANGED <<pc, err>>
           ELSE /\ pc' = "failed"
                /\ err' = "KeyError"
                /\ UNCHANGED stack
    /\ UNCHANGED <<args, fields, pending, last>>

\* lines 69-71: the next superior is populated first, with no test whether
\* its call is already in progress; a call beyond the recursion limit
\* raises RecursionError; the callee's line 69 looks the name up in
\* schema.object_classes and raises KeyError for a name that is not there
PopulateSuperior ==
    /\ pc = "populate" /\ stack # <<>> /\ Top.phase = "superior"
    /\ Top.idx <= Len(TopInfo.superior)
    /\ LET sup == TopInfo.superior[Top.idx]
       IN  IF Len(stack) >= MaxDepth
           THEN /\ pc' = "failed"
                /\ err' = "RecursionError"
                /\ UNCHANGED stack
           ELSE IF sup \in Known(schema)
           THEN /\ stack' = Append(ReplaceTop([Top EXCEPT !.idx = @ + 1]),
                                   Frame(sup))
                /\ UNCHANGED <<pc, err>>
           ELSE /\ pc' = "failed"
                /\ err' = "KeyError"
                /\ UNCHANGED stack
    /\ UNCHANGED <<args, fields, pending, last>>

\* line 72: the superiors are done
SuperiorsDone ==
    /\ pc = "populate" /\ stack # <<>> /\ Top.phase = "superior"
    /\ Top.idx > Len(TopInfo.superior)
    /\ stack' = ReplaceTop([Top EXCEPT !.phase = "must", !.idx = 1])
    /\ UNCHANGED <<pc, args, fields, pending, err, last>>

\* lines 73-75 without line 76: the record is not marked mandatory
populate_must_unmarked(attrs, sch, custom, attribute_type) ==
    LET added == add(attrs, sch, custom, Str(attribute_type)).attrs
        validator == find_attribute_validator(sch, attribute_type, custom)
    IN  DictSet(added, attribute_type,
                [DictGet(added, attribute_type) EXCEPT
                    !.validate = validator])

\* lines 73-76 for one must_contain name: a fresh record, with the
\* validator found for it, mandatory
populate_must(attrs, sch, custom, attribute_type) ==
    LET added == add(attrs, sch, custom, Str(attribute_type)).attrs
        validator == find_attribute_validator(sch, attribute_type, custom)
    IN  DictSet(added, attribute_type,
                [DictGet(added, attribute_type) EXCEPT
                    !.validate = validator, !.mandatory = TRUE])

\* lines 79-81 without the test of line 78: the record is made anew
populate_may_unguarded(attrs, sch, custom, attribute_type) ==
    LET added == add(attrs, sch, custom, Str(attribute_type)).attrs
        validator == find_attribute_validator(sch, attribute_type, custom)
    IN  DictSet(added, attribute_type,
                [DictGet(added, attribute_type) EXCEPT
                    !.validate = validator])

\* lines 78-81 for one may_contain name: only a name that is no key of the
\* dict gets a record
populate_may(attrs, sch, custom, attribute_type) ==
    IF ~InDict(attrs, attribute_type)
    THEN LET added == add(attrs, sch, custom, Str(attribute_type)).attrs
             validator == find_attribute_validator(sch, attribute_type, custom)
         IN  DictSet(added, attribute_type,
                     [DictGet(added, attribute_type) EXCEPT
                         !.validate = validator])
    ELSE attrs

PopulateMust ==
    /\ pc = "populate" /\ stack # <<>> /\ Top.phase = "must"
    /\ Top.idx <= Len(TopInfo.must_contain)
    /\ attributes' = populate_must(attributes, schema, custom_validator,
                                   TopInfo.must_contain[Top.idx])
    /\ stack' = ReplaceTop([Top EXCEPT !.idx = @ + 1])
    /\ UNCHANGED <<pc, args, object_class, custom_validator, schema,
                   stray_object_class, pending, err, last>>

\* line 77: the must_contain names are done
MustDone ==
    /\ pc = "populate" /\ stack # <<>> /\ Top.phase = "must"
    /\ Top.idx > Len(TopInfo.must_contain)
    /\ stack' = ReplaceTop([Top EXCEPT !.phase = "may", !.idx = 1])
    /\ UNCHANGED <<pc, args, fields, pending, err, last>>

PopulateMay ==
    /\ pc = "populate" /\ stack # <<>> /\ Top.phase = "may"
    /\ Top.idx <= Len(TopInfo.may_contain)
    /\ attributes' = populate_may(attributes, schema, custom_validator,
                                  TopInfo.may_contain[Top.idx])
    /\ stack' = ReplaceTop([Top EXCEPT !.idx = @ + 1])
    /\ UNCHANGED <<pc, args, object_class, custom_validator, schema,
                   stray_object_class, pending, err, last>>

\* the may_contain names are done: _populate_attr_defs returns
Return ==
    /\ pc = "populate" /\ stack # <<>> /\ Top.phase = "may"
    /\ Top.idx > Len(TopInfo.may_contain)
    /\ stack' = Pop
    /\ UNCHANGED <<pc, args, fields, pending, err, last>>

NextResolve ==
    \/ Construct
    \/ ForElement
    \/ Constructed
    \/ PopulateSuperior
    \/ SuperiorsDone
    \/ PopulateMust
    \/ MustDone
    \/ PopulateMay
    \/ Return

SpecResolve == InitResolve /\ [][NextResolve]_vars

SpecConstruct == InitConstruct /\ [][NextResolve]_vars

\* __init__ runs on: a call that can take a step takes it
SpecCycle == InitCycle /\ [][NextResolve]_vars /\ WF_vars(NextResolve)

----------------------------------------------------------------------------
(* The calls made on a constructed ObjectDef *)

\* the AttrDef objects the calls are made with
AttrDefs ==
    {[key |-> k, validate |-> v, mandatory |-> TRUE] :
        k \in {cn, CN, sn}, v \in {NoValidator, "user"}}

AddInputs ==
    {Str(n) : n \in Names} \cup {Rec(r) : r \in AttrDefs} \cup {Other}

RemoveInputs ==
    {Str(n) : n \in Names} \cup {Rec(AttrDef(k)) : k \in {cn, CN, empty}}
        \cup {Other}

FieldNames ==
    {"_object_class", "_attributes", "_custom_validator", "_schema",
     "object_class"}

\* self.__dict__ as a function of the field names
Fields ==
    [k \in FieldNames |->
        CASE k = "_object_class"     -> object_class
          [] k = "_attributes"       -> attributes
          [] k = "_custom_validator" -> custom_validator
          [] k = "_schema"           -> schema
          [] OTHER                   -> stray_object_class]

\* the field writes that are tried
SetAttrInputs ==
    {[key |-> "_object_class", value |-> Plain("top")],
     [key |-> "_attributes", value |-> <<>>],
     [key |-> "_attributes", value |-> <<AttrDef(sn)>>],
     [key |-> "_custom_validator", value |-> "custom"],
     [key |-> "_schema", value |-> NoSchema],
     [key |-> "object_class", value |-> "top"]}

Add ==
    /\ pc = "ready"
    /\ \E definition \in AddInputs :
        LET r == add(attributes, schema, custom_validator, definition)
        IN  /\ Len(r.attrs) <= MaxAttrs
            /\ attributes' = r.attrs
            /\ err' = r.err
            /\ last' = [op |-> "add", arg |-> definition]
    /\ UNCHANGED <<pc, args, object_class, custom_validator, schema,
                   stray_object_class, pending, stack>>

Remove ==
    /\ pc = "ready"
    /\ \E item \in RemoveInputs :
        LET r == remove(attributes, item)
        IN  /\ attributes' = r.attrs
            /\ err' = r.err
            /\ last' = [op |-> "remove", arg |-> item]
    /\ UNCHANGED <<pc, args, object_class, custom_validator, schema,
                   stray_object_class, pending, stack>>

ISub ==
    /\ pc = "ready"
    /\ \E other \in RemoveInputs :
        LET r == isub(attributes, other)
        IN  /\ attributes' = r.attrs
            /\ err' = r.err
            /\ last' = [op |-> "__isub__", arg |-> other]
    /\ UNCHANGED <<pc, args, object_class, custom_validator, schema,
                   stray_object_class, pending, stack>>

Clear ==
    /\ pc = "ready"
    /\ LET r == clear(object_class, stray_object_class, attributes)
       IN  /\ object_class' = r.object_class
           /\ stray_object_class' = r.stray_object_class
           /\ attributes' = r.attributes
    /\ err' = "none"
    /\ last' = [op |-> "clear",
                arg |-> [kind |-> "cleared", keys |-> Keys(attributes)]]
    /\ UNCHANGED <<pc, args, custom_validator, schema, pending, stack>>

SetAttr ==
    /\ pc = "ready"
    /\ \E w \in SetAttrInputs :
        LET r == setattr(Fields, w.key, w.value)
        IN  /\ object_class' = r.fields["_object_class"]
            /\ attributes' = r.fields["_attributes"]
            /\ custom_validator' = r.fields["_custom_validator"]
            /\ schema' = r.fields["_schema"]
            /\ stray_object_class' = r.fields["object_class"]
            /\ err' = r.err
            /\ last' = [op |-> "__setattr__",
                        arg |-> [kind |-> "field", key |-> w.key]]
    /\ UNCHANGED <<pc, args, pending, stack>>

Next ==
    \/ NextResolve
    \/ Add
    \/ Remove
    \/ ISub
    \/ Clear
    \/ SetAttr

Spec == Init /\ [][Next]_vars

----------------------------------------------------------------------------
(* add() called with a sequence, on a definition constructed empty *)

\* ObjectDef() with no class and no schema
EmptyArgs ==
    [object_class : {Plain("None")},
     schema : {NoSchema},
     custom_validator : {"None"}]

InitSeq == \E a \in EmptyArgs : InitWith(a)

\* the elements of the sequences: two names, an AttrDef, and an object
\* add() has no branch for
SeqElems ==
    {Str(mail), Str(telephoneNumber),
     Rec([key |-> mail, validate |-> "user", mandatory |-> TRUE]),
     Other}

RECURSIVE SeqsUpTo(_)
SeqsUpTo(n) ==
    IF n = 0 THEN {<<>>}
    ELSE LET shorter == SeqsUpTo(n - 1)
         IN  shorter \cup {Append(s, e) : s \in shorter, e \in SeqElems}

\* the sequences add() is called with: those of the elements, and those
\* that start with a sequence
SeqInputs ==
    {SeqOf(es) : es \in SeqsUpTo(MaxSeqLen)}
        \cup {SeqOf(<<SeqOf(<<a>>), b>>) : a, b \in SeqElems}

\* the items remove() is called with
RemoveSeqInputs ==
    {Str(mail), Str(telephoneNumber), Rec(AttrDef(telephoneNumber)), Other}

\* add(seq) that restores the dict when an element raises
AddSeq_atomic ==
    /\ pc = "ready"
    /\ \E definition \in SeqInputs :
        LET r == add(attributes, schema, custom_validator, definition)
        IN  /\ attributes' = IF r.err # "none" THEN attributes ELSE r.attrs
            /\ err' = r.err
            /\ last' = [op |-> "add", arg |-> definition]
    /\ UNCHANGED <<pc, args, object_class, custom_validator, schema,
                   stray_object_class, pending, stack>>

AddSeq ==
    /\ pc = "ready"
    /\ \E definition \in SeqInputs :
        LET r == add(attributes, schema, custom_validator, definition)
        IN  /\ attributes' = r.attrs
            /\ err' = r.err
            /\ last' = [op |-> "add", arg |-> definition]
    /\ UNCHANGED <<pc, args, object_class, custom_validator, schema,
                   stray_object_class, pending, stack>>

RemoveSeq ==
    /\ pc = "ready"
    /\ \E item \in RemoveSeqInputs :
        LET r == remove(attributes, item)
        IN  /\ attributes' = r.attrs
            /\ err' = r.err
            /\ last' = [op |-> "remove", arg |-> item]
    /\ UNCHANGED <<pc, args, object_class, custom_validator, schema,
                   stray_object_class, pending, stack>>

NextSeq ==
    \/ Construct
    \/ AddSeq
    \/ RemoveSeq
    \/ Clear

SpecSeq == InitSeq /\ [][NextSeq]_vars

----------------------------------------------------------------------------
(* What the claims speak of *)

Range(s) == {s[i] : i \in 1..Len(s)}

\* the classes reached from the set S of known classes through superiors
RECURSIVE SuperiorClosure(_, _)
SuperiorClosure(sch, S) ==
    LET more == S \cup {sup \in Known(sch) :
                    \E c \in S : sup \in Range(sch.object_classes[c].superior)}
    IN  IF more = S THEN S ELSE SuperiorClosure(sch, more)

\* the closure of the requested classes the schema knows
RequestedClosure ==
    SuperiorClosure(schema, Range(args.object_class.names) \cap Known(schema))

MustIds == UNION {Range(schema.object_classes[c].must_contain) :
                    c \in RequestedClosure}

MayIds == UNION {Range(schema.object_classes[c].may_contain) :
                    c \in RequestedClosure}

\* the strict superiors of class c
StrictSuperiors(c) ==
    SuperiorClosure(schema,
        Range(schema.object_classes[c].superior) \cap Known(schema))

\* the next step of the resolution handles a may_contain name
AtMay ==
    /\ pc = "populate" /\ stack # <<>> /\ Top.phase = "may"
    /\ Top.idx <= Len(TopInfo.may_contain)

\* two positions of the dict hold keys that differ in case only
Duplicates(attrs) ==
    \E i, j \in 1..Len(attrs) :
        i # j /\ lower(attrs[i].key) = lower(attrs[j].key)

\* some stored key, lower-cased, equals the normalized key of the item
KeyMatches(attrs, item) ==
    {i \in 1..Len(attrs) : remove_key(item).key = lower(attrs[i].key)}

\* some stored key equals the string s when case is ignored, s taken as it
\* is or without its whitespace
NameMatches(attrs, s) ==
    {i \in 1..Len(attrs) :
        lower(attrs[i].key) \in {normalize(s), lower(s)}}

----------------------------------------------------------------------------
(* C1: after construction over an acyclic schema, a stored record is
   mandatory if and only if its identifier is in the must_contain list of a
   class in the superior closure of the requested classes, and the stored
   identifiers are those of the closure's must_contain and may_contain
   lists; the closure is a set, so the order in which a class lists its
   superiors does not enter. *)
C1_MandatoryIffMust ==
    pc = "ready" =>
        /\ \A i \in 1..Len(attributes) :
            attributes[i].mandatory <=> attributes[i].key \in MustIds
        /\ Keys(attributes) = MustIds \cup MayIds

\* a class with two superiors was resolved, and an identifier that one
\* class of the closure lists as may_contain and another as must_contain
\* is stored as mandatory beside a record that is not mandatory
C1_Witness ==
    /\ pc = "ready"
    /\ "user" \in RequestedClosure
    /\ Len(schema.object_classes["user"].superior) = 2
    /\ \E i, j \in 1..Len(attributes) :
        /\ attributes[i].key \in MustIds \cap MayIds
        /\ attributes[i].mandatory
        /\ ~attributes[j].mandatory

(* C2: a resolution step that handles a may_contain name for which the dict
   already holds a record leaves the dict as it is; and after construction
   an identifier that a superior lists as must_contain and the subclass as
   may_contain is mandatory. *)
C2_MayNeverOverwrites ==
    /\ [][(AtMay /\ InDict(attributes, TopInfo.may_contain[Top.idx]))
            => attributes' = attributes]_vars
    /\ [](pc = "ready" =>
            \A c \in RequestedClosure :
                \A x \in Range(schema.object_classes[c].may_contain) :
                    (\E s \in StrictSuperiors(c) :
                        x \in Range(schema.object_classes[s].must_contain))
                    => /\ InDict(attributes, x)
                       /\ DictGet(attributes, x).mandatory)

\* a may_contain step has just passed over a name whose record is
\* mandatory, so the record was there before the step
C2_Witness ==
    /\ pc = "populate" /\ stack # <<>> /\ Top.phase = "may" /\ Top.idx > 1
    /\ InDict(attributes, TopInfo.may_contain[Top.idx - 1])
    /\ DictGet(attributes, TopInfo.may_contain[Top.idx - 1]).mandatory

(* C3: after add(s) of a string s, every string t that differs from s only
   in case and whitespace is contained, and get(t) is the record keyed s.
   Stated for s without whitespace, as in the claim's example add("cn"). *)
C3_LookupInsensitive ==
    (pc = "ready" /\ last.op = "add" /\ last.arg.kind = "str"
        /\ join_split(last.arg.s) = last.arg.s)
    => \A t \in Names :
        normalize(t) = normalize(last.arg.s)
        => /\ contains(attributes, t)
           /\ getitem(attributes, t).rec.key = last.arg.s

(* C4: remove(item) whose normalized key equals a stored identifier, case
   ignored, raises nothing and deletes the first such record.  Stated for
   items whose key is not the empty string. *)
C4_RemoveMatching ==
    [][(pc = "ready" /\ last'.op = "remove"
            /\ last'.arg.kind \in {"str", "AttrDef"}
            /\ remove_key(last'.arg).key # <<>>
            /\ KeyMatches(attributes, last'.arg) # {})
        => /\ err' = "none"
           /\ attributes' = DictDel(attributes,
                attributes[First(KeyMatches(attributes, last'.arg))].key)]_vars

(* C5: remove(name) of a string that matches no stored identifier raises a
   KeyError-kind error and leaves the dict as it is. *)
C5_RemoveAbsent ==
    [][(pc = "ready" /\ last'.op = "remove" /\ last'.arg.kind = "str"
            /\ NameMatches(attributes, last'.arg.s) = {})
        => /\ err' = "KeyError"
           /\ attributes' = attributes]_vars

(* C6: no two stored records have identifiers that are equal when case is
   ignored. *)
C6_UniqueIgnoringCase ==
    pc = "ready" => ~Duplicates(attributes)

(* C7: every direct field write raises ObjectError and changes no field. *)
C7_ReadOnly ==
    [][(pc = "ready" /\ last'.op = "__setattr__")
        => /\ err' = "ObjectError"
           /\ UNCHANGED fields]_vars

\* a field write was refused on a definition that holds records
C7_Witness ==
    /\ last.op = "__setattr__"
    /\ last.arg.key = "_attributes"
    /\ err = "ObjectError"
    /\ attributes # <<>>

(* C8: after clear() the length is 0 and no identifier is contained, those
   stored before the call included. *)
C8_ClearEmpties ==
    last.op = "clear" =>
        /\ len(attributes) = 0
        /\ \A x \in Names \cup last.arg.keys : ~contains(attributes, x)

\* clear() was called on a definition that held records
C8_Witness ==
    /\ last.op = "clear"
    /\ last.arg.keys # {}

(* C9: after clear() the class names that __repr__ reads are empty or
   unset. *)
C9_ClearResetsClass ==
    last.op = "clear" => repr_header(object_class) = "OBJ: <none>"

(* C10: a class name the schema does not know, requested or named as a
   superior, is passed over without an error, and the classes that are
   known are still resolved. *)
C10_UnknownSkipped ==
    /\ err = "none"
    /\ pc # "failed"
    /\ pc = "ready" => Keys(attributes) = MustIds \cup MayIds


\* the schema argument is given and is neither a SchemaInfo nor an object
\* that holds one
Unusable(sch) ==
    \/ sch.kind \in {"truthy", "falsy"}
    \/ sch.kind \in {"Server", "Connection"} /\ sch.schema.kind = "None"

(* C11: construction with a schema reference that is missing or of an
   unrecognized kind fails with SchemaError before any class is resolved, and
   no ObjectDef is produced.  Stated for a reference that is given: a Server
   or Connection without a schema, or an object of an unrecognized kind. *)
C11_UnusableSchemaFails ==
    (pc # "new" /\ Unusable(args.schema))
    => /\ pc = "failed"
       /\ err = "SchemaError"
       /\ attributes = <<>>

\* add(e) raises: e, or an element inside it, is of no kind add() takes
RECURSIVE Fails(_)
Fails(e) ==
    \/ e.kind = "other"
    \/ e.kind = "seq" /\ \E i \in 1..Len(e.elems) : Fails(e.elems[i])

\* the identifiers add(e) stores for an e that does not raise, in order
RECURSIVE FlatKeys(_)
FlatKeys(e) ==
    CASE e.kind = "str"     -> <<e.s>>
      [] e.kind = "AttrDef" -> <<e.rec.key>>
      [] e.kind = "seq"     ->
            IF e.elems = <<>> THEN <<>>
            ELSE FlatKeys(Head(e.elems)) \o FlatKeys(SeqOf(Tail(e.elems)))
      [] OTHER              -> <<>>

\* the identifiers the elements of es before index k store
KeysBefore(es, k) == Range(FlatKeys(SeqOf(SubSeq(es, 1, k - 1))))

(* C12: add(seq) that meets at index k an element that is neither a string,
   an AttrDef nor a sequence raises ObjectError; the elements before k have
   been added and stay added, and no element after k is added. *)
C12_SequenceAddNotAtomic ==
    [][(last'.op = "add" /\ last'.arg.kind = "seq") =>
        \A k \in 1..Len(last'.arg.elems) :
            (/\ last'.arg.elems[k].kind = "other"
             /\ \A j \in 1..(k - 1) : ~Fails(last'.arg.elems[j]))
            => /\ err' = "ObjectError"
               /\ Keys(attributes') =
                      Keys(attributes) \cup KeysBefore(last'.arg.elems, k)
               /\ \A i \in 1..Len(attributes) :
                      attributes[i].key \notin KeysBefore(last'.arg.elems, k)
                      => attributes'[i] = attributes[i]]_vars

\* add(["mail", <other>, "telephoneNumber"]) on the empty definition raised
\* and left mail stored
C12_Witness ==
    /\ last = [op |-> "add",
               arg |-> SeqOf(<<Str(mail), Other, Str(telephoneNumber)>>)]
    /\ err = "ObjectError"
    /\ Keys(attributes) = {mail}


\* the identifiers of a sequence of records
KeySeq(recs) == [i \in 1..Len(recs) |-> recs[i].key]

\* ks without the identifiers outside S
Kept(ks, S) == SelectSeq(ks, LAMBDA k : k \in S)

\* the identifiers of ks that are not in seen, each at its first occurrence
RECURSIVE FirstNew(_, _)
FirstNew(seen, ks) ==
    IF ks = <<>> THEN <<>>
    ELSE IF Head(ks) \in seen THEN FirstNew(seen, Tail(ks))
    ELSE <<Head(ks)>> \o FirstNew(seen \cup {Head(ks)}, Tail(ks))

IsPrefix(s, t) == Len(s) <= Len(t) /\ SubSeq(t, 1, Len(s)) = s

(* C13: iteration yields every stored record exactly once, in the order in
   which the identifiers were first inserted into the mapping: add() appends
   the identifiers that are new, in the order of the argument, behind those
   already stored, remove() keeps the order of those that stay; and
   add(["mail", "telephoneNumber"]) on the empty definition gives exactly two
   non-mandatory records, iterated as mail, telephoneNumber. *)
C13_IterInsertionOrder ==
    [][LET before == iter(attributes)
           after  == iter(attributes')
       IN  /\ Len(after) = Cardinality(Keys(attributes'))
           /\ \A k \in Keys(attributes') :
                  Cardinality({i \in 1..Len(after) :
                                 after[i] = DictGet(attributes', k)}) = 1
           /\ last'.op = "add" =>
                  /\ IsPrefix(KeySeq(before), KeySeq(after))
                  /\ err' = "none" =>
                         KeySeq(after) =
                            KeySeq(before)
                               \o FirstNew(Keys(attributes), FlatKeys(last'.arg))
           /\ last'.op = "remove" =>
                  KeySeq(after) = Kept(KeySeq(before), Keys(attributes'))
           /\ (/\ attributes = <<>>
               /\ last'.op = "add"
               /\ last'.arg = SeqOf(<<Str(mail), Str(telephoneNumber)>>))
              => /\ err' = "none"
                 /\ KeySeq(after) = <<mail, telephoneNumber>>
                 /\ \A i \in 1..Len(after) : ~after[i].mandatory]_vars

\* after add(["mail", "telephoneNumber"]) the definition iterates as two
\* non-mandatory records, mail before telephoneNumber
C13_Witness ==
    /\ last = [op |-> "add",
               arg |-> SeqOf(<<Str(mail), Str(telephoneNumber)>>)]
    /\ err = "none"
    /\ KeySeq(iter(attributes)) = <<mail, telephoneNumber>>
    /\ \A i \in 1..Len(attributes) : ~iter(attributes)[i].mandatory


\* the identifiers of the classes of S and of all their superiors
ClosureIds(S) ==
    UNION {Range(schema.object_classes[c].must_contain)
              \cup Range(schema.object_classes[c].may_contain) :
           c \in SuperiorClosure(schema, S \cap Known(schema))}

\* the call at position p of the stack has handled its superiors in the
\* schema's order: those before the one in progress are resolved with all
\* their superiors, and the one in progress is the call above
SuperiorsInOrder(p) ==
    LET f    == stack[p]
        sup  == schema.object_classes[f.cls].superior
        done == IF p < Len(stack) THEN f.idx - 2 ELSE f.idx - 1
    IN  /\ p < Len(stack) =>
               /\ f.phase = "superior"
               /\ stack[p + 1].cls = sup[f.idx - 1]
        /\ f.phase = "superior" =>
               \A j \in 1..done : ClosureIds({sup[j]}) \subseteq Keys(attributes)
        /\ f.phase \in {"must", "may"} =>
               ClosureIds(Range(sup)) \subseteq Keys(attributes)

\* the call at position p handles its must_contain names before its
\* may_contain names
MustBeforeMay(p) ==
    LET f    == stack[p]
        must == schema.object_classes[f.cls].must_contain
    IN  /\ f.phase = "must" =>
               \A j \in 1..(f.idx - 1) : InDict(attributes, must[j])
        /\ f.phase = "may" =>
               \A j \in 1..Len(must) :
                   /\ InDict(attributes, must[j])
                   /\ DictGet(attributes, must[j]).mandatory

\* a step that changes the dict is the innermost call merging its next own
\* must_contain or may_contain name
MergesOwnName ==
    attributes' # attributes =>
        /\ pc = "populate" /\ stack # <<>>
        /\ Top.phase \in {"must", "may"}
        /\ LET id == IF Top.phase = "must"
                     THEN TopInfo.must_contain[Top.idx]
                     ELSE TopInfo.may_contain[Top.idx]
           IN  \A i \in 1..Len(attributes') :
                   attributes'[i].key # id =>
                       /\ i <= Len(attributes)
                       /\ attributes'[i] = attributes[i]

(* C14: for every class reached by the resolution, its direct superiors are
   resolved, each with all its own superiors and in the order the schema
   lists them, before any attribute of the class itself is merged, and the
   class's must_contain names are merged before its may_contain names. *)
C14_SuperiorsFirst ==
    /\ [](\A p \in 1..Len(stack) : SuperiorsInOrder(p) /\ MustBeforeMay(p))
    /\ [][MergesOwnName]_vars

\* the call for user merges its first own name, the names of person and of
\* top being stored
C14_Witness ==
    /\ pc = "populate"
    /\ Len(stack) = 1
    /\ Top.cls = "user" /\ Top.phase = "must" /\ Top.idx = 1
    /\ TopInfo.superior = <<"person", "top">>
    /\ schema.object_classes["person"].superior = <<"top">>
    /\ schema.object_classes["top"].may_contain = <<cn>>
    /\ schema.object_classes["person"].must_contain = <<CN, sn>>
    /\ TopInfo.must_contain = <<cn>>
    /\ KeySeq(attributes) = <<cn, CN, sn>>


\* a requested class reaches a class that is among its own superiors
Cyclic ==
    \E c \in RequestedClosure : c \in StrictSuperiors(c)

(* C15 as claimed, its second half: when a requested class reaches a cycle
   in the superior graph the resolution never terminates, neither returning
   nor raising. *)
C15_CycleNeverTerminates ==
    (pc # "new" /\ Cyclic) => pc \notin {"ready", "failed"}

(* C15 as amended: the resolution terminates for every finite schema.  When
   the superior graph reached from the requested classes is acyclic (and no
   deeper than the recursion limit) __init__ returns; when a requested class
   reaches a cycle, the recursion, which has no visited-set guard, descends
   to the recursion limit and __init__ raises RecursionError, so that no
   ObjectDef is produced. *)
C15_TerminatesOrOverflows ==
    /\ <>(pc \in {"ready", "failed"})
    /\ [](pc = "ready" => ~Cyclic)
    /\ [](pc = "failed" =>
            /\ Cyclic
            /\ err = "RecursionError"
            /\ Len(stack) = MaxDepth)

\* person is its own superior: the resolution of user stopped at the
\* recursion limit
C15_Witness ==
    /\ pc = "failed"
    /\ err = "RecursionError"
    /\ args.object_class = Plain("user")
    /\ schema.object_classes["person"].superior = <<"person">>
    /\ \A p \in 2..Len(stack) : stack[p].cls = "person"


(* C16: remove(item) raises a TypeError-kind error if and only if item is
   neither a string nor an AttrDef.  Stated for items that are strings or
   of an unsupported type: the unsupported ones raise it, and a string,
   the empty one and one of whitespace included, is either removed or
   raises a KeyError-kind error. *)
C16_TypeErrorIffUnsupported ==
    (pc = "ready" /\ last.op = "remove") =>
        /\ last.arg.kind = "other" => err = "TypeError"
        /\ last.arg.kind = "str" => err \in {"none", "KeyError"}

(* C17: right after add(r) of an AttrDef r, get(r.key) returns r, and not
   a record stored earlier under a key equal to r.key when case is
   ignored. *)
C17_LastWriterWins ==
    (pc = "ready" /\ last.op = "add" /\ last.arg.kind = "AttrDef") =>
        LET r   == last.arg.rec
            got == getitem(attributes, r.key)
        IN  /\ got.err = "none"
            /\ got.rec.key = r.key
            /\ got.rec.mandatory = r.mandatory

(* C18: right after remove(name) has returned without an error for a string
   name, contains(name) is false.  Stated for names without whitespace. *)
C18_RemoveEffective ==
    (/\ pc = "ready" /\ last.op = "remove" /\ last.arg.kind = "str"
     /\ join_split(last.arg.s) = last.arg.s
     /\ err = "none")
    => ~contains(attributes, last.arg.s)

====
